---- MODULE Spec2Model ----
(***************************************************************************)
(* A model of brigadier_core.py: the event generator run_brigadier (with   *)
(* the generators downloadFile and sevenzipExtract it delegates to) and    *)
(* cleanup_files, acting on one output directory.                          *)
(*                                                                         *)
(* A session is one call of run_brigadier.  The generator runs from one    *)
(* yield to the next each time its consumer asks for the next event; every *)
(* such stretch of code is one action, and pc names the yield at which the *)
(* generator is suspended.  The catalog is remote data: the model draws    *)
(* each product when the code first reads it.                              *)
(***************************************************************************)
EXTENDS Integers, Sequences, FiniteSets, TLC

\* ------------------------------------------------------------------ bounds

\* The largest number of products a catalog holds.
MaxProducts == 2

\* The largest number of chunks a package download delivers.
MaxChunks == 2

\* ------------------------------------------------------------- input sets

Sessions == {1, 2}

\* Product identifiers, as sequences of string pieces.  The third one holds
\* the piece ".zip" (an identifier such as "041-1.zip").
ProductIds == { <<"041-1">>, <<"041-2">>, <<"041-1", ".zip">> }

\* product_id when the caller gives none: app.py passes '' (falsy).
NoId == << >>

\* PostDate values, ordered as the dates they stand for.
Dates == {1, 2}

\* A product whose PostDate key is missing: .get('PostDate') is None.
NoDate == 0

\* The values platform.system() returns.
Systems == {"Windows", "Darwin", "Linux"}

\* What an external tool invocation does: exit code 0, a non-zero exit
\* code, or subprocess.call raising OSError because it cannot be started.
ToolOutcomes == {"ok", "nonzero", "nostart"}

\* --------------------------------------------------------------- file names

\* landing_dir's base name: f'BootCampESD-{pkg_id}'.
LandingName(pkg_id) == <<"BootCampESD-">> \o pkg_id

\* The base name of the path shutil.make_archive returns: base_name + '.zip'.
ArchiveName(pkg_id) == LandingName(pkg_id) \o <<".zip">>

\* zip_filename.replace('.zip', ''): every occurrence is removed.
FolderName(zip_filename) == SelectSeq(zip_filename, LAMBDA t : t # ".zip")

\* The entries of the output directory the model follows.
Names == { LandingName(p) : p \in ProductIds } \cup { ArchiveName(p) : p \in ProductIds }

\* ------------------------------------------------------- the output directory

Absent == [kind |-> "absent", data |-> {}]
Dir(d) == [kind |-> "dir", data |-> d]
File(d) == [kind |-> "file", data |-> d]

\* os.path.exists
Exists(f, n) == f[n].kind # "absent"

\* What a session's extraction puts into its landing directory.
Tag(s) == IF s = 1 THEN "run1" ELSE "run2"

EmptyOutputDir == [n \in Names |-> Absent]

\* What an earlier run for product p can have left behind: nothing, the
\* landing directory alone (a failed run), or the landing directory with
\* its archive (a completed run).
Leftover(p, how) ==
    CASE how = "landing" -> [EmptyOutputDir EXCEPT ![LandingName(p)] = Dir({"old"})]
      [] how = "both"    -> [EmptyOutputDir EXCEPT ![LandingName(p)] = Dir({"old"}),
                                                   ![ArchiveName(p)] = File({"old"})]
      [] OTHER           -> EmptyOutputDir

\* The products with leftovers when a run begins: the two whose file names
\* meet (the archive of the first has the name of the second's landing
\* directory).
StaleIds == { <<"041-1">>, <<"041-1", ".zip">> }

InitialOutputDirs ==
    {EmptyOutputDir} \cup { Leftover(p, how) : p \in StaleIds, how \in {"landing", "both"} }

\* ------------------------------------------------------------------- events

Ev(type, data) == [type |-> type, data |-> data]
Log(msg) == Ev("log", <<msg>>)
Error(msg) == Ev("error", <<msg>>)

\* ----------------------------------------------------------------- sessions

NoProduct == [id |-> NoId, date |-> NoDate]

VARIABLES
    ses,    \* ses[s]: the locals and position of session s's generator
    fs,     \* the output directory: name -> entry
    last,   \* the last cleanup_files call, if no run stepped since: its name and result
    req     \* the request the download route is serving, if any

vars == <<ses, fs, last, req>>

\* last.before: the result of the call directly before it, when that call
\* was for the same name; "none" otherwise.
NoCall == [name |-> << >>, ret |-> "none", before |-> "none"]

\* The download route at rest.  A request in progress has
\*   pc: "responding" (the view function has returned its response),
\*       "sending" (the response is handed to the server), "finished",
\*   name: the file name asked for,
\*   status: "200" (send_from_directory opened the file) or "404",
\*   cleaned: what the registered cleanup returned, "none" before it ran,
\*   sent: the file's contents have reached the client.
NoRequest == [pc |-> "idle", name |-> << >>, status |-> "none", cleaned |-> "none", sent |-> FALSE]

\* A generator just made.  Beside the function's locals it keeps
\*   output_dir: what the output directory held when the run began,
\*   catalog: how far the catalog got ("unread", "URLError", "fetched": data
\*            is bound, "parsed": p is bound, "searched": the loop is over),
\*   seen: the keys the loop over the products has passed (dropped once a
\*         selection starts).
Fresh(product_id) ==
    [pc |-> "start", events |-> << >>, product_id |-> product_id,
     output_dir |-> EmptyOutputDir, catalog |-> "unread",
     seen |-> {}, pkg_data_list |-> << >>, pkg_data |-> NoProduct,
     arc_workdir |-> "absent", total |-> FALSE, chunks |-> 0, system |-> "unread"]

Unused == [Fresh(NoId) EXCEPT !.pc = "unused"]

\* The generator has ended: it returned, an exception left it, or its
\* consumer closed it.
Terminal == {"returned", "raised", "closed"}

\* Positions inside a stretch of code, at which the generator is not
\* suspended at a yield.
Internal == {"start", "loop", "unused"}

Suspended(s) == ses[s].pc \notin Terminal \cup Internal

\* The generator yields event ev and is suspended at `at`.
Yield(r, ev, at) == [r EXCEPT !.events = Append(@, ev), !.pc = at]

\* An exception leaves the generator; the with block, if entered, removes
\* the temporary directory on the way out.
Raised(r) == [r EXCEPT !.pc = "raised", !.arc_workdir = "absent"]

\* A `return` (or falling off the end) of the generator.
Returned(r) == [r EXCEPT !.pc = "returned"]

\* Session s moves to r; a step of a run ends any chain of cleanup calls.
Becomes(s, r) == ses' = [ses EXCEPT ![s] = r] /\ last' = NoCall /\ req' = req

\* ------------------------------------------------- run_brigadier: the catalog

\* The first request for an event: the generator starts and yields the
\* model line.
Start(s) ==
    /\ ses[s].pc = "start"
    /\ Becomes(s, Yield([ses[s] EXCEPT !.output_dir = fs], Log("model"), "log_model"))
    /\ UNCHANGED fs

\* The mutant of CatalogFetchFailed: the handler does not yield the error.
CatalogFetchFailedSilent(r) == Returned([r EXCEPT !.catalog = "URLError"])

\* except URLError: the error event; the `return` follows on the next request.
CatalogFetchFailed(r) ==
    Yield([r EXCEPT !.catalog = "URLError"], Error("catalog_fetch"), "err_catalog")

\* urlopen(SUCATALOG_URL) and read(): the document, or URLError.
FetchCatalog(s) ==
    /\ ses[s].pc = "log_model"
    /\ \E fetched \in BOOLEAN :
         Becomes(s, IF fetched
                    THEN Yield([ses[s] EXCEPT !.catalog = "fetched"],
                               Log("catalog_ok"), "log_catalog")
                    ELSE CatalogFetchFailed(ses[s]))
    /\ UNCHANGED fs

\* The mutant of AnnounceSearch: the search is not announced.
AnnounceSearchSilent(r) == [r EXCEPT !.pc = "log_searching"]

\* The log before the loop over bc_prods.
AnnounceSearch(r) == Yield(r, Log("searching"), "log_searching")

\* plistlib.loads(data): a malformed document raises, and nothing catches it.
\* Otherwise Products is read and the search is announced.
ParseCatalog(s) ==
    /\ ses[s].pc = "log_catalog"
    /\ \E wellformed \in BOOLEAN :
         Becomes(s, IF wellformed
                    THEN AnnounceSearch([ses[s] EXCEPT !.catalog = "parsed"])
                    ELSE Raised(ses[s]))
    /\ UNCHANGED fs

\* A product of the catalog, by what the code reads of it: its key, whether
\* ServerMetadataURL holds 'BootCamp', its English distribution ("none": no
\* URL; "unreachable": urlopen raises URLError; "nomatch" / "match": the
\* document's text does not / does contain the model), and its PostDate.
Products ==
    [id : ProductIds, bootcamp : BOOLEAN,
     dist : {"none", "unreachable", "nomatch", "match"}, date : Dates \cup {NoDate}]

\* The mutant of Qualifies: the filter of bc_prods is left out.
QualifiesAnyMarker(prod) == prod.dist = "match"

\* The product passes the filter of bc_prods, has an English distribution
\* that can be fetched, and re.search finds the model in it.
Qualifies(prod) == prod.bootcamp /\ prod.dist = "match"

\* The filter of bc_prods and one pass of the loop body for product prod.
\* A match is appended and announced; the strftime of a missing PostDate
\* raises AttributeError.
LoopBody(s, prod) ==
    LET r == [ses[s] EXCEPT !.seen = @ \cup {prod.id}]
        cand == [id |-> prod.id, date |-> prod.date]
        found == [r EXCEPT !.pkg_data_list = Append(@, cand)]
    IN \/ /\ ~Qualifies(prod)
          /\ Becomes(s, [r EXCEPT !.pc = "loop"])
       \/ /\ Qualifies(prod)
          /\ prod.date = NoDate
          /\ Becomes(s, Raised(found))
       \/ /\ Qualifies(prod)
          /\ prod.date # NoDate
          /\ Becomes(s, Yield(found, Ev("product_found", <<prod.id, prod.date>>),
                              "product_found"))

\* One product of the catalog, in iteration order, drawn as the loop
\* reaches it.
TestProduct(s) ==
    /\ ses[s].pc \in {"log_searching", "product_found", "loop"}
    /\ Cardinality(ses[s].seen) < MaxProducts
    /\ \E prod \in Products :
         /\ prod.id \notin ses[s].seen
         /\ LoopBody(s, prod)
    /\ UNCHANGED fs

\* ------------------------------------------------ run_brigadier: the selection

\* The mutant of Replaces: a later item of equal date replaces the best.
ReplacesOnTie(d, b) == d >= b

\* max() keeps the best item so far until a later item's key is strictly
\* greater.
Replaces(d, b) == d > b

\* max() over list[i..], with the index of the best item so far.
RECURSIVE MaxFrom(_, _, _)
MaxFrom(list, i, best) ==
    IF i > Len(list) THEN best
    ELSE MaxFrom(list, i + 1, IF Replaces(list[i].date, list[best].date) THEN i ELSE best)

\* The index of max(pkg_data_list, key=PostDate) in a non-empty list.
SelectNewest(list) == MaxFrom(list, 2, 1)

\* The mutant of FindExplicit: the first candidate is taken whatever its id.
FindExplicitFirst(list, product_id) == IF Len(list) > 0 THEN 1 ELSE 0

\* next((p for p in pkg_data_list if key == product_id), None): the index
\* of the first candidate with that id, 0 for None.
FindExplicit(list, product_id) ==
    IF \E i \in 1..Len(list) : list[i].id = product_id
    THEN CHOOSE i \in 1..Len(list) :
           /\ list[i].id = product_id
           /\ \A j \in 1..(i - 1) : list[j].id # product_id
    ELSE 0

\* pkg_id and pkg_url are read from the selected product: a product without
\* Packages[0]['URL'] raises KeyError or IndexError; otherwise the selection
\* is announced.
AnnounceSelection(s, r) ==
    \E hasUrl \in BOOLEAN :
        Becomes(s, IF hasUrl
                   THEN Yield(r, Ev("log", <<"selected", r.pkg_data.id>>), "log_selected")
                   ELSE Raised(r))

\* The mutant of NoCandidates: an empty candidate list is not an error when
\* the caller gave a product id.
NoCandidatesUnlessExplicit(r) == r.pkg_data_list = << >> /\ r.product_id = NoId

\* `if not pkg_data_list`
NoCandidates(r) == r.pkg_data_list = << >>

\* The catalog has no further product: the loop ends, and the code runs on
\* to the error of an empty candidate list or to the selection's first log.
EndOfCatalog(s) ==
    /\ ses[s].pc \in {"log_searching", "product_found", "loop"}
    /\ LET r == [ses[s] EXCEPT !.seen = {}, !.catalog = "searched"]
           list == r.pkg_data_list
       IN \/ /\ NoCandidates(r)
             /\ Becomes(s, Yield([r EXCEPT !.seen = ses[s].seen],
                                 Error("no_match"), "err_no_match"))
          \/ /\ ~NoCandidates(r)
             /\ r.product_id # NoId
             /\ Becomes(s, Yield(r, Log("explicit"), "log_explicit"))
          \/ /\ ~NoCandidates(r)
             /\ r.product_id = NoId
             /\ Len(list) = 1
             /\ Becomes(s, Yield([r EXCEPT !.pkg_data = list[1]], Log("unique"), "log_choice"))
          \/ /\ ~NoCandidates(r)
             /\ r.product_id = NoId
             /\ Len(list) # 1
             /\ LET chosen == list[SelectNewest(list)]
                IN Becomes(s, Yield([r EXCEPT !.pkg_data = chosen],
                                    Ev("log", <<"newest", chosen.id>>), "log_choice"))
    /\ UNCHANGED fs

\* After the explicit-id log: the candidate with that id, or the error.
UseExplicit(s) ==
    /\ ses[s].pc = "log_explicit"
    /\ LET r == ses[s]
           i == FindExplicit(r.pkg_data_list, r.product_id)
       IN \/ /\ i = 0
             /\ Becomes(s, Yield(r, Error("invalid_id"), "err_invalid_id"))
          \/ /\ i # 0
             /\ AnnounceSelection(s, [r EXCEPT !.pkg_data = r.pkg_data_list[i]])
    /\ UNCHANGED fs

\* After the automatic selection's log.
UseChoice(s) ==
    /\ ses[s].pc = "log_choice"
    /\ AnnounceSelection(s, ses[s])
    /\ UNCHANGED fs

\* --------------------------------------- run_brigadier: the landing directory

\* The mutant of Landing: every run works in product 041-1's directory.
LandingFixed(r) == LandingName(<<"041-1">>)

\* The selected product's landing directory and archive.
Landing(r) == LandingName(r.pkg_data.id)
Archive(r) == ArchiveName(r.pkg_data.id)

\* The mutant of MakeLanding: the directory is made over what the path
\* held, as if nothing had been removed.
MakeLandingOver(s, r, f) ==
    /\ fs' = [f EXCEPT ![Landing(r)] = Dir(fs[Landing(r)].data)]
    /\ Becomes(s, Yield(r, Log("created"), "log_created"))

\* os.makedirs(landing_dir) on output directory f: the directory is created
\* empty and announced, or OSError (the path exists, or the file system
\* refuses) leaves the generator.
MakeLanding(s, r, f) ==
    \E ok \in BOOLEAN :
        IF ok /\ ~Exists(f, Landing(r))
        THEN /\ fs' = [f EXCEPT ![Landing(r)] = Dir({})]
             /\ Becomes(s, Yield(r, Log("created"), "log_created"))
        ELSE /\ fs' = f
             /\ Becomes(s, Raised(r))

\* After the selection's log: a landing directory that exists is announced
\* for removal; otherwise it is created.
PrepareLanding(s) ==
    /\ ses[s].pc = "log_selected"
    /\ \/ /\ Exists(fs, Landing(ses[s]))
          /\ Becomes(s, Yield(ses[s], Log("exists"), "log_exists"))
          /\ UNCHANGED fs
       \/ /\ ~Exists(fs, Landing(ses[s]))
          /\ MakeLanding(s, ses[s], fs)

\* The mutant of RemoveStale: a run waits while another run is at work in
\* the directory, between making it and compressing it.
RemoveStaleExcluded(s) ==
    /\ ses[s].pc = "log_exists"
    /\ \A u \in Sessions \ {s} :
         Landing(ses[u]) = Landing(ses[s]) =>
           ses[u].pc \in {"start", "unused", "log_selected", "log_exists", "log_compressed",
                          "zip_ready", "done"} \cup Terminal
    /\ MakeLanding(s, ses[s], [fs EXCEPT ![Landing(ses[s])] = Absent])

\* shutil.rmtree(landing_dir): the tree is removed and the directory made
\* anew; or OSError (the path is no directory, or the file system refuses,
\* having removed some of the tree or none) is turned into the error event.
RemoveStale(s) ==
    /\ ses[s].pc = "log_exists"
    /\ LET r == ses[s]
           entry == fs[Landing(r)]
       IN \/ /\ entry.kind = "dir"
             /\ MakeLanding(s, r, [fs EXCEPT ![Landing(r)] = Absent])
          \/ /\ \E rest \in (IF entry.kind = "dir" THEN SUBSET entry.data ELSE {entry.data}) :
                   fs' = [fs EXCEPT ![Landing(r)].data = rest]
             /\ Becomes(s, Yield(r, Error("rmtree"), "err_rmtree"))

\* ------------------------------------------------- run_brigadier: the download

\* The with block is entered (the temporary directory exists, empty) and
\* downloadFile yields its first log.
EnterDownload(s) ==
    /\ ses[s].pc = "log_created"
    /\ Becomes(s, Yield([ses[s] EXCEPT !.arc_workdir = "empty"],
                        Log("download_start"), "log_download_start"))
    /\ UNCHANGED fs

\* except RequestException: the error event; the `raise` follows on the
\* next request.
DownloadFailed(r) == Yield(r, Error("download"), "err_download")

\* iter_content from record r on: the next chunk is written and, when the
\* response gave a content-length, reported; or the stream ends and the
\* download is complete; or the connection breaks.  Without a
\* content-length the chunks pass without an event.
Stream(s, r) ==
    \/ /\ r.total
       /\ r.chunks < MaxChunks
       /\ Becomes(s, Yield([r EXCEPT !.chunks = @ + 1],
                           Ev("progress", <<r.chunks + 1>>), "progress"))
    \/ Becomes(s, Yield([r EXCEPT !.arc_workdir = "pkg"],
                        Log("download_done"), "log_download_done"))
    \/ Becomes(s, DownloadFailed(r))

\* requests.get and raise_for_status: a failure before any byte is written,
\* or the response, whose body is then streamed into the file.
BeginDownload(s) ==
    /\ ses[s].pc = "log_download_start"
    /\ \/ Becomes(s, DownloadFailed(ses[s]))
       \/ \E hasLength \in BOOLEAN :
            Stream(s, [ses[s] EXCEPT !.total = hasLength, !.arc_workdir = "partial"])
    /\ UNCHANGED fs

\* After a progress event.
NextChunk(s) ==
    /\ ses[s].pc = "progress"
    /\ Stream(s, ses[s])
    /\ UNCHANGED fs

\* The bare `raise` of downloadFile's handler: the exception passes through
\* `yield from` and the with block and leaves run_brigadier.
DownloadRaise(s) ==
    /\ ses[s].pc = "err_download"
    /\ Becomes(s, Raised(ses[s]))
    /\ UNCHANGED fs

\* ----------------------------------------------- run_brigadier: the extraction

\* An extraction by session s into directory n of f.  7z makes its output
\* directory when it is missing (creates); tar -C does not.
CanExtract(f, n, creates) == f[n].kind = "dir" \/ (creates /\ f[n].kind = "absent")

ExtractInto(f, n, s, creates) ==
    IF f[n].kind = "dir" THEN [f EXCEPT ![n].data = @ \cup {Tag(s)}]
    ELSE IF creates /\ f[n].kind = "absent" THEN [f EXCEPT ![n] = Dir({Tag(s)})]
    ELSE f

\* The mutant of LeaveWith: the with block's exit leaves arc_workdir behind.
LeaveWithKeep(r) == r

\* The with block ends: TemporaryDirectory removes arc_workdir.
LeaveWith(r) == [r EXCEPT !.arc_workdir = "absent"]

\* The platform branch is over, whatever it yielded last: the with block
\* ends and the extraction is reported complete.
AfterExtraction(r) == Yield(LeaveWith(r), Log("extracted"), "log_extracted")

\* downloadFile has returned; platform.system() picks the branch, and the
\* branch's first event follows: on Windows sevenzipExtract's error when
\* 7z.exe is not installed, else its command line.
Dispatch(s) ==
    /\ ses[s].pc = "log_download_done"
    /\ \E sys \in Systems :
         LET r == [ses[s] EXCEPT !.system = sys]
         IN \/ /\ sys = "Windows"
               /\ \E installed \in BOOLEAN :
                    Becomes(s, IF installed
                               THEN Yield(r, Log("7z_command"), "log_7z_command")
                               ELSE Yield(r, Error("7z_missing"), "err_7z_missing"))
            \/ /\ sys = "Darwin"
               /\ Becomes(s, Yield(r, Log("expanding"), "log_expanding"))
            \/ /\ sys \notin {"Windows", "Darwin"}
               /\ Becomes(s, Yield(r, Log("linux_7z"), "log_linux_7z"))
    /\ UNCHANGED fs

\* sevenzipExtract's subprocess.call: the return code decides between the
\* error event and the success log.
Run7zip(s) ==
    /\ ses[s].pc = "log_7z_command"
    /\ \E outcome \in ToolOutcomes :
         \/ /\ outcome = "nostart"
            /\ Becomes(s, Raised(ses[s]))
            /\ UNCHANGED fs
         \/ /\ outcome = "nonzero"
            /\ Becomes(s, Yield(ses[s], Error("7z_failed"), "err_7z_failed"))
            /\ UNCHANGED fs
         \/ /\ outcome = "ok"
            /\ CanExtract(fs, Landing(ses[s]), TRUE)
            /\ fs' = ExtractInto(fs, Landing(ses[s]), s, TRUE)
            /\ Becomes(s, Yield(ses[s], Log("7z_ok"), "log_7z_ok"))

\* sevenzipExtract has returned, after its error or its success log.
After7zip(s) ==
    /\ ses[s].pc \in {"err_7z_missing", "err_7z_failed", "log_7z_ok"}
    /\ Becomes(s, AfterExtraction(ses[s]))
    /\ UNCHANGED fs

\* pkgutil --expand, its return code ignored; then the test for Payload.
ExpandPackage(s) ==
    /\ ses[s].pc = "log_expanding"
    /\ \E outcome \in ToolOutcomes :
         \/ /\ outcome = "nostart"
            /\ Becomes(s, Raised(ses[s]))
         \/ /\ outcome # "nostart"
            /\ \E payload \in BOOLEAN :
                 Becomes(s, IF payload
                            THEN Yield([ses[s] EXCEPT !.arc_workdir = "expanded"],
                                       Log("payload"), "log_payload")
                            ELSE Yield(ses[s], Error("no_payload"), "err_no_payload"))
    /\ UNCHANGED fs

\* tar -xz -C landing_dir, its return code ignored.
ExtractPayload(s) ==
    /\ ses[s].pc = "log_payload"
    /\ \E outcome \in ToolOutcomes :
         \/ /\ outcome = "nostart"
            /\ Becomes(s, Raised(ses[s]))
            /\ UNCHANGED fs
         \/ /\ outcome = "nonzero"
            /\ Becomes(s, Yield(ses[s], Log("payload_done"), "log_payload_done"))
            /\ UNCHANGED fs
         \/ /\ outcome = "ok"
            /\ CanExtract(fs, Landing(ses[s]), FALSE)
            /\ fs' = ExtractInto(fs, Landing(ses[s]), s, FALSE)
            /\ Becomes(s, Yield(ses[s], Log("payload_done"), "log_payload_done"))

\* The Darwin branch is over, after the Payload's log or its error.
AfterPayload(s) ==
    /\ ses[s].pc \in {"log_payload_done", "err_no_payload"}
    /\ Becomes(s, AfterExtraction(ses[s]))
    /\ UNCHANGED fs

\* subprocess.call(['7z', 'x', ...]) on other hosts, its return code ignored.
Linux7z(s) ==
    /\ ses[s].pc = "log_linux_7z"
    /\ \E outcome \in ToolOutcomes :
         \/ /\ outcome = "nostart"
            /\ Becomes(s, Raised(ses[s]))
            /\ UNCHANGED fs
         \/ /\ outcome = "nonzero"
            /\ Becomes(s, AfterExtraction(ses[s]))
            /\ UNCHANGED fs
         \/ /\ outcome = "ok"
            /\ CanExtract(fs, Landing(ses[s]), TRUE)
            /\ fs' = ExtractInto(fs, Landing(ses[s]), s, TRUE)
            /\ Becomes(s, AfterExtraction(ses[s]))

\* ---------------------------------------------- run_brigadier: the compression

AnnounceCompression(s) ==
    /\ ses[s].pc = "log_extracted"
    /\ Becomes(s, Yield(ses[s], Log("compressing"), "log_compressing"))
    /\ UNCHANGED fs

\* shutil.make_archive(base, 'zip', landing_dir).  It writes the archive from
\* the landing directory's contents; it raises when the archive's path is a
\* directory or the file system refuses.  With the landing directory
\* missing it raises or writes an empty archive, by the Python version.
Compress(s) ==
    /\ ses[s].pc = "log_compressing"
    /\ LET r == ses[s]
       IN \/ /\ fs[Archive(r)].kind # "dir"
             /\ fs[Landing(r)].kind # "file"
             /\ fs' = [fs EXCEPT ![Archive(r)] = File(fs[Landing(r)].data)]
             /\ Becomes(s, Yield(r, Ev("log", <<"compressed", Archive(r)>>), "log_compressed"))
          \/ /\ Becomes(s, Yield(r, Error("compress"), "err_compress"))
             /\ UNCHANGED fs

\* The mutant of ZipReady: the archive's name is not announced, and done
\* follows the compression's log.
ZipReadySkipped(s) ==
    /\ ses[s].pc = "log_compressed"
    /\ Becomes(s, Yield(ses[s], Ev("done", << >>), "done"))
    /\ UNCHANGED fs

\* After the compression's log: the archive's file name is announced.
ZipReady(s) ==
    /\ ses[s].pc = "log_compressed"
    /\ Becomes(s, Yield(ses[s], Ev("zip_ready", <<Archive(ses[s])>>), "zip_ready"))
    /\ UNCHANGED fs

Done(s) ==
    /\ ses[s].pc = "zip_ready"
    /\ Becomes(s, Yield(ses[s], Ev("done", << >>), "done"))
    /\ UNCHANGED fs

\* The positions whose next statement is `return`, or the end of the
\* function.
Returning == {"err_catalog", "err_no_match", "err_invalid_id", "err_rmtree", "err_compress", "done"}

Return(s) ==
    /\ ses[s].pc \in Returning
    /\ Becomes(s, Returned(ses[s]))
    /\ UNCHANGED fs

\* The consumer closes the generator at a yield: GeneratorExit is raised
\* there and unwinds the with block.
Abandon(s) ==
    /\ Suspended(s)
    /\ Becomes(s, [ses[s] EXCEPT !.pc = "closed", !.arc_workdir = "absent"])
    /\ UNCHANGED fs

\* ------------------------------------------------------------- cleanup_files

\* `if os.path.exists(zip_path): os.remove(zip_path)`: os.remove raises for
\* a directory, and when the file system refuses (removeOk is false).
RemoveZip(f, zip_path, removeOk) ==
    IF ~Exists(f, zip_path) THEN [fs |-> f, ok |-> TRUE]
    ELSE IF f[zip_path].kind = "file" /\ removeOk
         THEN [fs |-> [f EXCEPT ![zip_path] = Absent], ok |-> TRUE]
         ELSE [fs |-> f, ok |-> FALSE]

\* `if os.path.exists(folder_path): shutil.rmtree(folder_path)`: rmtree
\* raises for a file, and when the file system refuses, leaving `rest`.
RemoveFolder(f, folder_path, rmtreeOk, rest) ==
    IF ~Exists(f, folder_path) THEN [fs |-> f, ok |-> TRUE]
    ELSE IF f[folder_path].kind = "dir"
         THEN IF rmtreeOk
              THEN [fs |-> [f EXCEPT ![folder_path] = Absent], ok |-> TRUE]
              ELSE [fs |-> [f EXCEPT ![folder_path].data = rest], ok |-> FALSE]
         ELSE [fs |-> f, ok |-> FALSE]

\* The mutant of CleanupFiles: no handler around the body, so a failure is
\* an exception of the caller.
CleanupFilesUncaught(f, zip_filename, removeOk, rmtreeOk, rest) ==
    LET zipped == RemoveZip(f, zip_filename, removeOk)
        foldered == RemoveFolder(zipped.fs, FolderName(zip_filename), rmtreeOk, rest)
    IN IF ~zipped.ok THEN [fs |-> zipped.fs, ret |-> "raised"]
       ELSE IF ~foldered.ok THEN [fs |-> foldered.fs, ret |-> "raised"]
       ELSE [fs |-> foldered.fs, ret |-> "True"]

\* cleanup_files(output_dir, zip_filename): the archive, then the folder; an
\* exception from either is caught and False returned.
CleanupFiles(f, zip_filename, removeOk, rmtreeOk, rest) ==
    LET zipped == RemoveZip(f, zip_filename, removeOk)
        foldered == RemoveFolder(zipped.fs, FolderName(zip_filename), rmtreeOk, rest)
    IN IF ~zipped.ok THEN [fs |-> zipped.fs, ret |-> "False"]
       ELSE IF ~foldered.ok THEN [fs |-> foldered.fs, ret |-> "False"]
       ELSE [fs |-> foldered.fs, ret |-> "True"]

\* A call of cleanup_files for file name n.  The file system's refusals are
\* drawn only where the call reaches them.
Cleanup(n) ==
    /\ \E removeOk \in (IF fs[n].kind = "file" THEN BOOLEAN ELSE {TRUE}) :
       \E rmtreeOk \in (IF fs[FolderName(n)].kind = "dir" THEN BOOLEAN ELSE {TRUE}) :
       \E rest \in (IF rmtreeOk THEN {{}} ELSE SUBSET fs[FolderName(n)].data) :
         LET result == CleanupFiles(fs, n, removeOk, rmtreeOk, rest)
         IN /\ fs' = result.fs
            /\ last' = [name |-> n, ret |-> result.ret,
                        before |-> IF last.name = n THEN last.ret ELSE "none"]
    /\ UNCHANGED <<ses, req>>

\* ------------------------------------------------------------ specification

\* No run is under way: no generator is between its start and its end.
Quiet == \A s \in Sessions : ses[s].pc \in Terminal \cup {"unused"}

\* The file names the runs have announced in zip_ready events: the names a
\* client asks the download route for.
Announced ==
    UNION { { ses[s].events[i].data[1] :
                i \in { j \in 1..Len(ses[s].events) : ses[s].events[j].type = "zip_ready" } } :
            s \in Sessions }

\* One run of run_brigadier on an output directory that earlier activity
\* may have filled, and, after the run, calls of cleanup_files.
Init ==
    /\ \E product_id \in ProductIds \cup {NoId} :
         ses = [s \in Sessions |-> IF s = 1 THEN Fresh(product_id) ELSE Unused]
    /\ fs \in InitialOutputDirs
    /\ last = NoCall
    /\ req = NoRequest

Step(s) ==
    \/ Start(s)
    \/ FetchCatalog(s)
    \/ ParseCatalog(s)
    \/ TestProduct(s)
    \/ EndOfCatalog(s)
    \/ UseExplicit(s)
    \/ UseChoice(s)
    \/ PrepareLanding(s)
    \/ RemoveStale(s)
    \/ EnterDownload(s)
    \/ BeginDownload(s)
    \/ NextChunk(s)
    \/ DownloadRaise(s)
    \/ Dispatch(s)
    \/ Run7zip(s)
    \/ After7zip(s)
    \/ ExpandPackage(s)
    \/ ExtractPayload(s)
    \/ AfterPayload(s)
    \/ Linux7z(s)
    \/ AnnounceCompression(s)
    \/ Compress(s)
    \/ ZipReady(s)
    \/ Done(s)
    \/ Return(s)

\* The run, and after it the clean-up of the file it announced.
Next ==
    \/ \E s \in Sessions : Step(s)
    \/ Quiet /\ \E n \in Announced : Cleanup(n)

Spec == Init /\ [][Next]_vars

\* cleanup_files alone, from any output directory the code's own files can
\* make up: a landing name is missing or a directory, an archive name is
\* missing or a file, and the name that is both may be either.
OutputDirs ==
    { f \in [Names -> {Absent, Dir({}), Dir({"old"}), File({"old"})}] :
        \A n \in Names :
          /\ (f[n].kind = "dir" => \E p \in ProductIds : n = LandingName(p))
          /\ (f[n].kind = "file" => \E p \in ProductIds : n = ArchiveName(p)) }

InitCleanup ==
    /\ ses = [s \in Sessions |-> Unused]
    /\ fs \in OutputDirs
    /\ last = NoCall
    /\ req = NoRequest

NextCleanup == \E n \in Names : Cleanup(n)

SpecCleanup == InitCleanup /\ [][NextCleanup]_vars

\* The run with a consumer that may close the generator at any yield, as
\* the HTTP layer does when the client goes away.
NextAbandon ==
    \/ \E s \in Sessions : Step(s)
    \/ \E s \in Sessions : Abandon(s)

SpecAbandon == Init /\ [][NextAbandon]_vars

\* The generator of a run begun on output directory f that fetched and
\* parsed the catalog, suspended at the search's log: what Start,
\* FetchCatalog and ParseCatalog make of it.
Searching(f) ==
    LET r1 == Yield([Fresh(NoId) EXCEPT !.output_dir = f], Log("model"), "log_model")
        r2 == Yield([r1 EXCEPT !.catalog = "fetched"], Log("catalog_ok"), "log_catalog")
    IN AnnounceSearch([r2 EXCEPT !.catalog = "parsed"])

\* The generator of a run that found the one matching product p in the
\* catalog and selected it, suspended at the selection's log: what
\* TestProduct, EndOfCatalog and UseChoice make of Searching(f).  Up to here
\* a run reads and writes no file.
Selected(p, f) ==
    LET cand == [id |-> p, date |-> 1]
        r4 == Yield([Searching(f) EXCEPT !.seen = {p}, !.pkg_data_list = <<cand>>],
                    Ev("product_found", <<p, 1>>), "product_found")
        r5 == Yield([r4 EXCEPT !.seen = {}, !.catalog = "searched", !.pkg_data = cand],
                    Log("unique"), "log_choice")
    IN Yield(r5, Ev("log", <<"selected", p>>), "log_selected")

\* The steps of a run from the selection on: the ones that act on files.
StepFiles(s) ==
    \/ PrepareLanding(s)
    \/ RemoveStale(s)
    \/ EnterDownload(s)
    \/ BeginDownload(s)
    \/ NextChunk(s)
    \/ DownloadRaise(s)
    \/ Dispatch(s)
    \/ Run7zip(s)
    \/ After7zip(s)
    \/ ExpandPackage(s)
    \/ ExtractPayload(s)
    \/ AfterPayload(s)
    \/ Linux7z(s)
    \/ AnnounceCompression(s)
    \/ Compress(s)
    \/ ZipReady(s)
    \/ Done(s)
    \/ Return(s)

\* Two requests served at once on an output directory that is empty when
\* they begin: each run has made its selection, the first of product 041-1
\* and the second of any product, and their steps interleave in any order.
InitShared ==
    /\ fs = EmptyOutputDir
    /\ \E p \in ProductIds :
         ses = [s \in Sessions |-> Selected(IF s = 1 THEN <<"041-1">> ELSE p, fs)]
    /\ last = NoCall
    /\ req = NoRequest

\* The runs are on one host: platform.system() gives each the same answer.
OneHost ==
    \A s \in Sessions : \A t \in Sessions :
      ses[s].system = ses[t].system \/ "unread" \in {ses[s].system, ses[t].system}

NextShared == \E s \in Sessions : StepFiles(s) /\ OneHost'

SpecShared == InitShared /\ [][NextShared]_vars

\* The first run signalled completion: zip_ready, then done, and it returned.
FirstCompleted ==
    /\ ses[1].pc = "returned"
    /\ ses[1].events[Len(ses[1].events)].type = "done"

\* One request after the other: the second run takes its first step from
\* the selection once the first has completed, and from then on the
\* download route may be asked for an announced file at any moment.
NextLater ==
    \/ \E s \in Sessions : (s = 1 \/ FirstCompleted) /\ StepFiles(s) /\ OneHost'
    \/ FirstCompleted /\ \E n \in Announced : Cleanup(n)

SpecLater == InitShared /\ [][NextLater]_vars

\* The catalogs: up to MaxProducts products, in the order of iteration, no
\* key twice.
Catalogs ==
    UNION { { c \in [1..n -> Products] : \A i \in 1..n : \A j \in 1..n : c[i].id = c[j].id => i = j } :
            n \in 0..MaxProducts }

\* Record r with its local p: the parsed catalog's products.
WithCatalog(r, catalog) ==
    [k \in DOMAIN r \cup {"p"} |-> IF k = "p" THEN catalog ELSE r[k]]

\* The matching loop over a catalog that is given when the loop begins: the
\* loop takes the products of p in order.
TestListed(s) ==
    /\ ses[s].pc \in {"log_searching", "product_found", "loop"}
    /\ ses[s].catalog = "parsed"
    /\ Cardinality(ses[s].seen) < Len(ses[s].p)
    /\ LoopBody(s, ses[s].p[Cardinality(ses[s].seen) + 1])
    /\ UNCHANGED fs

EndListed(s) ==
    /\ ses[s].catalog = "parsed"
    /\ Cardinality(ses[s].seen) = Len(ses[s].p)
    /\ EndOfCatalog(s)

InitMatch ==
    /\ fs = EmptyOutputDir
    /\ \E catalog \in Catalogs :
         ses = [s \in Sessions |-> IF s = 1 THEN WithCatalog(Searching(fs), catalog) ELSE Unused]
    /\ last = NoCall
    /\ req = NoRequest

NextMatch == \E s \in Sessions : TestListed(s) \/ EndListed(s)

SpecMatch == InitMatch /\ [][NextMatch]_vars

\* -------------------------------------------------- app.py: the download route

\* download_zip(filename): the view function registers cleanup with
\* after_this_request and returns send_from_directory's response, which
\* has opened the file; for a name that is no file of the directory
\* send_from_directory raises NotFound, which Flask turns into the 404
\* response.
DownloadZip(n) ==
    /\ req.pc = "idle"
    /\ req' = [NoRequest EXCEPT !.pc = "responding", !.name = n,
                                !.status = IF fs[n].kind = "file" THEN "200" ELSE "404"]
    /\ UNCHANGED <<ses, fs, last>>

\* Flask runs the functions registered with after_this_request on the
\* response object the view (or the error handler) produced, before it
\* hands the response to the server: cleanup calls cleanup_files and
\* returns the response.  os.remove of the file the response holds open is
\* refused on Windows and succeeds elsewhere.
AfterThisRequest ==
    /\ req.pc = "responding"
    /\ \E removeOk \in (IF fs[req.name].kind = "file" THEN BOOLEAN ELSE {TRUE}) :
       \E rmtreeOk \in (IF fs[FolderName(req.name)].kind = "dir" THEN BOOLEAN ELSE {TRUE}) :
       \E rest \in (IF rmtreeOk THEN {{}} ELSE SUBSET fs[FolderName(req.name)].data) :
         LET result == CleanupFiles(fs, req.name, removeOk, rmtreeOk, rest)
         IN /\ fs' = result.fs
            /\ req' = [req EXCEPT !.pc = "sending", !.cleaned = result.ret]
    /\ UNCHANGED <<ses, last>>

\* The server sends the response: the open file's contents reach the
\* client, or the client goes away before they have; a 404 carries no file.
SendResponse ==
    /\ req.pc = "sending"
    /\ \E received \in BOOLEAN :
         req' = [req EXCEPT !.pc = "finished", !.sent = received /\ req.status = "200"]
    /\ UNCHANGED <<ses, fs, last>>

\* The route is ready for the next request.
NextRequest ==
    /\ req.pc = "finished"
    /\ req' = NoRequest
    /\ UNCHANGED <<ses, fs, last>>

\* Requests to the download route, one after the other, for any name, on
\* any output directory the code's own files can make up.
InitDownload ==
    /\ ses = [s \in Sessions |-> Unused]
    /\ fs \in OutputDirs
    /\ last = NoCall
    /\ req = NoRequest

NextDownload ==
    \/ \E n \in Names : DownloadZip(n)
    \/ AfterThisRequest
    \/ SendResponse
    \/ NextRequest

SpecDownload == InitDownload /\ [][NextDownload]_vars

\* ------------------------------------------------------------------ claims

\* The types of session s's events, in order.
Types(s) == [i \in 1..Len(ses[s].events) |-> ses[s].events[i].type]

\* Session s has yielded event e.
Emitted(s, e) ==
    \E i \in 1..Len(ses[s].events) :
      ses[s].events[i].type = e.type /\ ses[s].events[i].data = e.data

\* Session s has yielded an event of type ty.
EmittedType(s, ty) == \E i \in 1..Len(ses[s].events) : ses[s].events[i].type = ty

\* The last event of session s is of type ty.
LastType(s, ty) ==
    Len(ses[s].events) > 0 /\ ses[s].events[Len(ses[s].events)].type = ty

\* C1: in every event sequence an 'error' event is the last event: no
\* event of any type follows it.
C1_ErrorEndsSequence ==
    \A s \in Sessions :
      \A i \in 1..Len(ses[s].events) :
        ses[s].events[i].type = "error" => i = Len(ses[s].events)

\* C2: no run ends with an exception leaving the generator.
C2_NoExceptionEscapes == \A s \in Sessions : ses[s].pc # "raised"

\* C3: after urlopen of the catalog raised URLError the event sequence is
\* exactly log, error, at every later moment of the run, and the output
\* directory is what it was when the run began.
C3_CatalogFetchFailure ==
    \A s \in Sessions :
      ses[s].catalog = "URLError" =>
        /\ Types(s) = <<"log", "error">>
        /\ fs = ses[s].output_dir
        /\ ses[s].pc \in {"err_catalog", "returned"}

C3_Witness ==
    \E s \in Sessions :
      /\ ses[s].catalog = "URLError"
      /\ ses[s].pc = "returned"
      /\ fs # EmptyOutputDir

\* The event types evts read: `logs` log events, product_found, the
\* auto-select log, one or more log, zero or more progress, one or more
\* log, zip_ready, done.
ScenarioA(evts, logs) ==
    LET n == Len(evts)
        ty(i) == evts[i].type
    IN /\ n >= logs + 6
       /\ \A i \in 1..logs : ty(i) = "log"
       /\ ty(logs + 1) = "product_found"
       /\ ty(logs + 2) = "log" /\ evts[logs + 2].data = <<"unique">>
       /\ ty(n - 1) = "zip_ready"
       /\ ty(n) = "done"
       /\ \E a \in (logs + 3)..(n - 3) : \E b \in a..(n - 3) :
            /\ \A i \in (logs + 3)..a : ty(i) = "log"
            /\ \A i \in (a + 1)..b : ty(i) = "progress"
            /\ \A i \in (b + 1)..(n - 2) : ty(i) = "log"

\* A run with one candidate and no explicit product id in which every
\* stage succeeded: it returned after done, with no error event.
OneCandidateSuccess(s) ==
    /\ ses[s].pc = "returned"
    /\ ses[s].product_id = NoId
    /\ Len(ses[s].pkg_data_list) = 1
    /\ LastType(s, "done")
    /\ ~EmittedType(s, "error")

\* C4, as claimed: such a run's events are log, log, product_found,
\* log (auto-select), log+, progress*, log+, zip_ready, done: two log events
\* precede product_found.
C4_ScenarioA_TwoLogs ==
    \A s \in Sessions : OneCandidateSuccess(s) => ScenarioA(ses[s].events, 2)

\* C4, amended: such a run's events are log, log, log, product_found,
\* log (auto-select), log+, progress*, log+, zip_ready, done: three log
\* events (the model, the fetched catalog, the search) precede product_found.
C4_ScenarioA_ThreeLogs ==
    \A s \in Sessions : OneCandidateSuccess(s) => ScenarioA(ses[s].events, 3)

C4_Witness ==
    \E s \in Sessions :
      /\ OneCandidateSuccess(s)
      /\ Len(SelectSeq(ses[s].events, LAMBDA e : e.type = "progress")) = 2

\* The first index of list whose date no other date exceeds.
FirstNewest(list) ==
    CHOOSE i \in 1..Len(list) :
      /\ \A j \in 1..Len(list) : list[j].date <= list[i].date
      /\ \A j \in 1..(i - 1) : list[j].date < list[i].date

\* list with the dates of its items i and j exchanged.
SwapDates(list, i, j) ==
    [list EXCEPT ![i].date = list[j].date, ![j].date = list[i].date]

\* The automatic selection among two or more candidates has been made.
ChoseAmongSeveral(s) ==
    /\ ses[s].product_id = NoId
    /\ Len(ses[s].pkg_data_list) >= 2
    /\ ses[s].pkg_data # NoProduct

\* C5: with no explicit product id and two or more candidates the selected
\* product is the first candidate, in catalog order, of maximal post date;
\* and with the dates of the selected candidate and of an older one
\* exchanged the selection is another candidate (of two, the other one).
C5_NewestFirstSeen ==
    \A s \in Sessions :
      ChoseAmongSeveral(s) =>
        LET list == ses[s].pkg_data_list
            i == FirstNewest(list)
        IN /\ ses[s].pkg_data = list[i]
           /\ Emitted(s, Ev("log", <<"newest", list[i].id>>))
           /\ \A j \in 1..Len(list) :
                list[j].date < list[i].date =>
                  /\ SelectNewest(SwapDates(list, i, j)) # i
                  /\ (Len(list) = 2 => SelectNewest(SwapDates(list, i, j)) = j)

C5_Witness ==
    \E s \in Sessions :
      /\ ChoseAmongSeveral(s)
      /\ ses[s].pc = "log_selected"
      /\ ses[s].pkg_data_list[1].date = ses[s].pkg_data_list[2].date
      /\ ses[s].pkg_data = ses[s].pkg_data_list[1]

\* The explicit product id of session s is the id of a candidate.
IsCandidate(s) ==
    \E i \in 1..Len(ses[s].pkg_data_list) : ses[s].pkg_data_list[i].id = ses[s].product_id

\* The code after the explicit-id log has run.
ExplicitTried(s) == Emitted(s, Log("explicit")) /\ ses[s].pc # "log_explicit"

\* C6: once the explicit product id has been looked up and is a
\* candidate's, the selected product is that candidate, whatever the
\* number and the dates of the others; the announced selection, the landing
\* directory made and the archive announced carry its id.
C6_ExplicitIdSelected ==
    \A s \in Sessions :
      (ses[s].product_id # NoId /\ ExplicitTried(s) /\ IsCandidate(s)) =>
        /\ ses[s].pkg_data.id = ses[s].product_id
        /\ \E i \in 1..Len(ses[s].pkg_data_list) : ses[s].pkg_data_list[i] = ses[s].pkg_data
        /\ \A i \in 1..Len(ses[s].events) :
             LET e == ses[s].events[i]
             IN /\ (e.type = "log" /\ e.data[1] = "selected" => e.data[2] = ses[s].product_id)
                /\ (e.type = "zip_ready" => e.data = <<ArchiveName(ses[s].product_id)>>)
        /\ (ses[s].pc = "log_created" => fs[LandingName(ses[s].product_id)] = Dir({}))
        /\ (ses[s].pc = "log_compressed" => fs[ArchiveName(ses[s].product_id)].kind = "file")

C6_Witness ==
    \E s \in Sessions :
      /\ ses[s].product_id # NoId
      /\ Len(ses[s].pkg_data_list) = 2
      /\ ses[s].pkg_data_list[2].id = ses[s].product_id
      /\ ses[s].pkg_data_list[1].date > ses[s].pkg_data_list[2].date
      /\ ses[s].pc = "returned"
      /\ LastType(s, "done")

\* The loop over the products is over.
LoopOver(s) == ses[s].catalog = "searched"

\* C7: once the loop is over, the explicit product id has been looked up
\* where there are candidates, and it is none of theirs, the run's last
\* event is an error, nothing is selected, the output directory is as it
\* was when the run began (no landing directory made) and no download
\* started: the run is at the error or has returned.
C7_ExplicitIdUnknown ==
    \A s \in Sessions :
      (ses[s].product_id # NoId /\ LoopOver(s) /\ ses[s].pc # "log_explicit" /\ ~IsCandidate(s)) =>
        /\ LastType(s, "error")
        /\ ses[s].pkg_data = NoProduct
        /\ fs = ses[s].output_dir
        /\ ses[s].arc_workdir = "absent"
        /\ ~Emitted(s, Log("download_start"))
        /\ ses[s].pc \in {"err_invalid_id", "err_no_match", "returned"}

C7_Witness ==
    \E s \in Sessions :
      /\ ses[s].product_id # NoId
      /\ Len(ses[s].pkg_data_list) = 1
      /\ ~IsCandidate(s)
      /\ ses[s].pc = "returned"
      /\ Emitted(s, Error("invalid_id"))

\* C8: once the loop is over with no candidate, with or without an
\* explicit product id, the run's events are the three logs and the error;
\* no product_found, progress, zip_ready or done event is among them, the
\* output directory is as it was when the run began, and the run is at the
\* error or has returned.
C8_NoCandidate ==
    \A s \in Sessions :
      (LoopOver(s) /\ ses[s].pkg_data_list = << >>) =>
        /\ Types(s) = <<"log", "log", "log", "error">>
        /\ LastType(s, "error")
        /\ \A ty \in {"product_found", "progress", "zip_ready", "done"} : ~EmittedType(s, ty)
        /\ fs = ses[s].output_dir
        /\ ses[s].pc \in {"err_no_match", "returned"}

C8_Witness ==
    \E s \in Sessions :
      /\ ses[s].pkg_data_list = << >>
      /\ ses[s].product_id # NoId
      /\ Cardinality(ses[s].seen) = 2
      /\ ses[s].pc = "returned"
      /\ fs # EmptyOutputDir

\* C9, as claimed: the second of two calls for the same name, one directly
\* after the other, returns True and leaves the output directory as it is,
\* and no call raises.
C9_SecondCallTrue ==
    [][ (last' # NoCall => last'.ret \in {"True", "False"})
        /\ (last'.before # "none" => last'.ret = "True" /\ fs' = fs) ]_vars

\* C9, amended: no call of cleanup_files raises (each returns True or
\* False), and a call directly after a call for the same name that
\* returned True returns True and leaves the output directory as it is.
C9_CleanupIdempotent ==
    [][ (last' # NoCall => last'.ret \in {"True", "False"})
        /\ (last'.before = "True" => last'.ret = "True" /\ fs' = fs) ]_vars

C9_Witness ==
    /\ last.name = ArchiveName(<<"041-1">>)
    /\ last.before = "True"
    /\ last.ret = "True"
    /\ fs # EmptyOutputDir

\* Session s ended with zip_ready, carrying its archive's name, and done.
Completed(s) ==
    /\ ses[s].pc = "returned"
    /\ LastType(s, "done")
    /\ Emitted(s, Ev("zip_ready", <<Archive(ses[s])>>))

\* C10: after a completed run, a call of cleanup_files for the announced
\* name that returns True leaves the run's archive and its landing
\* directory BootCampESD-<productId> missing and every other entry of the
\* output directory as it was.
C10_CleanupRemovesRunFiles ==
    [][ \A s \in Sessions :
          (/\ Completed(s)
           /\ ses' = ses
           /\ last'.name = Archive(ses[s])
           /\ last'.ret = "True") =>
             /\ fs'[Archive(ses[s])] = Absent
             /\ fs'[Landing(ses[s])] = Absent
             /\ \A n \in Names \ {Archive(ses[s]), Landing(ses[s])} : fs'[n] = fs[n] ]_vars


\* C11: once a run has ended (it returned, an exception left it, or its
\* consumer closed it) its temporary directory, with whatever the download
\* wrote into it, no longer exists.
C11_TempDirRemoved ==
    \A s \in Sessions : ses[s].pc \in Terminal => ses[s].arc_workdir = "absent"

\* The consumer closed the generator at a progress event: the download was
\* under way and the package partly written.
C11_Witness ==
    \E s \in Sessions :
      /\ ses[s].pc = "closed"
      /\ LastType(s, "progress")
      /\ ses[s].arc_workdir = "absent"

\* The step is a call of cleanup_files for file name n.
CleanupCalled(n) == ses' = ses /\ last' # NoCall /\ last'.name = n

\* The first run's archive and landing directory are in the output
\* directory.
HandedOff ==
    /\ FirstCompleted
    /\ fs[Archive(ses[1])].kind = "file"
    /\ fs[Landing(ses[1])].kind = "dir"

\* The step leaves the first run's archive and landing directory as they are.
FirstRunFilesKept ==
    /\ fs'[Archive(ses[1])] = fs[Archive(ses[1])]
    /\ fs'[Landing(ses[1])] = fs[Landing(ses[1])]

LandingOf(t) == LandingName(ses[t].pkg_data.id)
ArchiveOf(t) == ArchiveName(ses[t].pkg_data.id)

\* What a run alone on an empty output directory keeps true of session t's
\* events and files: it finds no directory to remove; its landing
\* directory is missing until it announces having made it and from then on
\* holds nothing but its own extraction, all of it once 7-Zip reported
\* success; its archive is missing until it announces the compression and
\* then holds the landing directory's contents.
AsAlone(t) ==
    LET landing == fs[LandingOf(t)]
        archive == fs[ArchiveOf(t)]
    IN /\ ~Emitted(t, Log("exists"))
       /\ IF Emitted(t, Log("created"))
          THEN /\ landing.kind = "dir"
               /\ landing.data \subseteq {Tag(t)}
               /\ (Emitted(t, Log("7z_ok")) => landing.data = {Tag(t)})
          ELSE landing = Absent
       /\ IF Emitted(t, Ev("log", <<"compressed", ArchiveOf(t)>>))
          THEN archive = File(landing.data)
          ELSE archive = Absent

\* A step of session t leaves the other session u, with its temporary
\* directory, and u's landing directory and archive as they are.
LeavesAlone(t, u) ==
    ses'[t] # ses[t] =>
      /\ ses'[u] = ses[u]
      /\ fs'[LandingOf(u)] = fs[LandingOf(u)]
      /\ fs'[ArchiveOf(u)] = fs[ArchiveOf(u)]

\* The file names of sessions t and u are four different names.
NamesApart(t, u) == {LandingOf(t), ArchiveOf(t)} \cap {LandingOf(u), ArchiveOf(u)} = {}

\* C13, as claimed: when two concurrent sessions selected different
\* product ids, no step of one creates, modifies or deletes the other's
\* landing directory, archive or temporary directory, and after every step
\* each session's events and files are as in a run alone.
C13_DifferentIdsIsolated ==
    [][ \A t \in Sessions : \A u \in Sessions \ {t} :
          ses[t].pkg_data.id # ses[u].pkg_data.id =>
            /\ LeavesAlone(t, u)
            /\ AsAlone(t)' ]_vars

\* C13, amended: the same, for two sessions whose landing directory and
\* archive names are four different names: their product ids differ and
\* neither is the other followed by ".zip".
C13_ApartNamesIsolated ==
    [][ \A t \in Sessions : \A u \in Sessions \ {t} :
          NamesApart(t, u) =>
            /\ LeavesAlone(t, u)
            /\ AsAlone(t)' ]_vars

\* Two runs of different products completed side by side, each with its own
\* extraction in its landing directory and archive.
C13_Witness ==
    /\ NamesApart(1, 2)
    /\ \A t \in Sessions :
         /\ ses[t].pc = "returned"
         /\ LastType(t, "done")
         /\ fs[LandingOf(t)] = Dir({Tag(t)})
         /\ fs[ArchiveOf(t)] = File({Tag(t)})

\* The yields after which the next request invokes an extraction tool that
\* writes into the landing directory: 7z.exe, tar, 7z.
AtExtractionTool == {"log_7z_command", "log_payload", "log_linux_7z"}

\* C14: on every platform branch, a step in which the extraction tool is
\* invoked and extracts nothing into the landing directory (it returned a
\* non-zero exit code or could not be started) ends with an error event
\* yielded for that sub-step.
C14_ToolFailureIsError ==
    [][ \A s \in Sessions :
          (/\ ses[s].pc \in AtExtractionTool
           /\ ses'[s] # ses[s]
           /\ fs'[Landing(ses[s])] = fs[Landing(ses[s])])
          => /\ Len(ses'[s].events) = Len(ses[s].events) + 1
             /\ ses'[s].events[Len(ses'[s].events)].type = "error" ]_vars

\* The stage of a run, by the place its generator is at: 1 Start, 2
\* CatalogFetched (and matching), 3 Matched, 4 Selected, 5 LandingPrepared
\* (and downloading), 6 Downloaded (and extracting), 7 Extracted, 8
\* Compressed, 9 Done, 10 Failed: the run ended, or is about to end, without
\* done.  0 is a session never started.
StageAt ==
    [pc \in {"unused"} |-> 0] @@
    [pc \in {"start", "log_model"} |-> 1] @@
    [pc \in {"log_catalog", "log_searching", "loop", "product_found"} |-> 2] @@
    [pc \in {"log_explicit", "log_choice"} |-> 3] @@
    [pc \in {"log_selected", "log_exists"} |-> 4] @@
    [pc \in {"log_created", "log_download_start", "progress"} |-> 5] @@
    [pc \in {"log_download_done", "log_7z_command", "log_7z_ok", "err_7z_missing",
             "err_7z_failed", "log_expanding", "log_payload", "log_payload_done",
             "err_no_payload", "log_linux_7z"} |-> 6] @@
    [pc \in {"log_extracted", "log_compressing"} |-> 7] @@
    [pc \in {"log_compressed", "zip_ready"} |-> 8] @@
    [pc \in {"done"} |-> 9] @@
    [pc \in {"err_catalog", "err_no_match", "err_invalid_id", "err_rmtree", "err_download",
             "err_compress", "raised", "closed"} |-> 10]

\* A run that has returned is Done when done was its last event, else Failed.
StageOf(r) ==
    IF r.pc # "returned" THEN StageAt[r.pc]
    ELSE IF r.events # << >> /\ r.events[Len(r.events)].type = "done" THEN 9 ELSE 10

\* From stage a a run stays, or moves to the next stage, or fails; Done and
\* Failed are left no more.
StageMove(a, b) ==
    \/ b = a
    \/ a < 9 /\ b = a + 1
    \/ a < 9 /\ b = 10

\* In the events e: every product_found precedes every progress; zip_ready
\* occurs at most once, after every progress; done occurs at most once, as
\* the last event, directly after zip_ready.
EventOrder(e) ==
    LET At(ty) == { i \in 1..Len(e) : e[i].type = ty }
        found == At("product_found")
        progress == At("progress")
        ready == At("zip_ready")
    IN /\ \A i \in found : \A j \in progress : i < j
       /\ \A i \in progress : \A j \in ready : i < j
       /\ Cardinality(ready) <= 1
       /\ \A i \in At("done") : i = Len(e) /\ i > 1 /\ e[i - 1].type = "zip_ready"

\* C15: every step of a run keeps its stage, moves it to the next stage,
\* or moves it to Failed, and no step leaves Done or Failed; and at every
\* moment the run's events have all product_found before every progress,
\* at most one zip_ready, after every progress, and at most one done, the
\* last event and directly after zip_ready.
C15_StagesInOrder ==
    /\ [][ \A s \in Sessions : StageMove(StageOf(ses[s]), StageOf(ses'[s])) ]_vars
    /\ [](\A s \in Sessions : EventOrder(ses[s].events))

\* A run through every stage to Done, with two product_found and two
\* progress events.
C15_Witness ==
    \E s \in Sessions :
      /\ StageOf(ses[s]) = 9
      /\ ses[s].pc = "returned"
      /\ Len(SelectSeq(ses[s].events, LAMBDA e : e.type = "product_found")) = 2
      /\ Len(SelectSeq(ses[s].events, LAMBDA e : e.type = "progress")) = 2

\* C16: when the package download of a run begins (the run has announced
\* the landing directory and enters or has entered downloadFile, before any
\* request is made) the landing directory BootCampESD-<productId> exists
\* and is empty; and once the removal of a stale landing directory has
\* failed, the run's last event is that error, the run is at it or has
\* returned, it has neither made the directory nor started the download,
\* and the path holds what the failed removal left of its old contents.
C16_LandingEmptyAtDownload ==
    \A s \in Sessions :
      /\ ses[s].pc \in {"log_created", "log_download_start"} =>
           fs[LandingName(ses[s].pkg_data.id)] = Dir({})
      /\ Emitted(s, Error("rmtree")) =>
           /\ ses[s].pc \in {"err_rmtree", "returned"}
           /\ LastType(s, "error")
           /\ ~Emitted(s, Log("created"))
           /\ ~Emitted(s, Log("download_start"))
           /\ ses[s].arc_workdir = "absent"
           /\ fs[LandingName(ses[s].pkg_data.id)].kind =
                ses[s].output_dir[LandingName(ses[s].pkg_data.id)].kind
           /\ fs[LandingName(ses[s].pkg_data.id)].data \subseteq
                ses[s].output_dir[LandingName(ses[s].pkg_data.id)].data

\* The download begins in a landing directory that held an earlier run's
\* files when the run began.
C16_Witness ==
    \E s \in Sessions :
      /\ ses[s].pc = "log_download_start"
      /\ ses[s].output_dir[LandingName(ses[s].pkg_data.id)] = Dir({"old"})
      /\ fs[LandingName(ses[s].pkg_data.id)] = Dir({})

\* The product is Boot-Camp-marked, has an English distribution URL, its
\* distribution document was fetched, and the document's text holds the
\* model.
IsMatch(prod) ==
    /\ prod.bootcamp
    /\ prod.dist # "none"
    /\ prod.dist # "unreachable"
    /\ prod.dist = "match"

\* The products of session s's catalog the loop has passed, in order: all
\* of them once the loop is over.
Passed(s) ==
    IF ses[s].catalog = "searched" THEN ses[s].p
    ELSE SubSeq(ses[s].p, 1, Cardinality(ses[s].seen))

\* The product ids and post dates of session s's product_found events, in
\* order.
FoundEvents(s) ==
    LET found == SelectSeq(ses[s].events, LAMBDA e : e.type = "product_found")
    IN [i \in 1..Len(found) |-> found[i].data]

\* The same of the products in list.
IdsAndDates(list) == [i \in 1..Len(list) |-> <<list[i].id, list[i].date>>]

AtWork(t) ==
    ses[t].pc \in {"log_created", "log_download_start", "progress", "log_download_done",
                   "log_7z_command", "log_7z_ok", "err_7z_missing", "err_7z_failed",
                   "log_expanding", "log_payload", "log_payload_done", "err_no_payload",
                   "log_linux_7z", "log_extracted", "log_compressing"}

\* C18: two sessions that selected the same product id are not mutually
\* excluded: whenever one is between landing-directory preparation and
\* compression and the other has found the landing directory in place, the
\* other's next step can remove the directory with what the first extracted
\* into it and make it anew, empty.
C18_SameIdNotExcluded ==
    \A t \in Sessions : \A u \in Sessions \ {t} :
      (/\ ses[t].pkg_data.id = ses[u].pkg_data.id
       /\ AtWork(t)
       /\ ses[u].pc = "log_exists"
       /\ fs[LandingOf(t)].kind = "dir")
      => ENABLED (RemoveStale(u) /\ fs'[LandingOf(t)] = Dir({}))

\* The race lost: session t extracted with success, compressed, announced
\* the archive and emitted done with no error, and the archive, which the
\* other session of the same product has not yet written, does not hold
\* t's extraction.
C18_Witness ==
    \E t \in Sessions : \E u \in Sessions \ {t} :
      /\ ses[t].pkg_data.id = ses[u].pkg_data.id
      /\ ses[t].pc = "returned"
      /\ LastType(t, "done")
      /\ ~EmittedType(t, "error")
      /\ Emitted(t, Log("7z_ok"))
      /\ ~Emitted(u, Ev("log", <<"compressed", ArchiveOf(u)>>))
      /\ fs[ArchiveOf(t)].kind = "file"
      /\ fs[ArchiveOf(t)].data # {Tag(t)}

\* C19: when a run has ended, and before any cleanup_files call, its
\* temporary directory is gone, and a landing directory the run made is in
\* the output directory only together with the archive the run wrote:
\* never on its own.
C19_NoLandingWithoutArchive ==
    \A s \in Sessions :
      (ses[s].pc \in Terminal /\ last = NoCall) =>
        /\ ses[s].arc_workdir = "absent"
        /\ (Emitted(s, Log("created")) /\ fs[LandingOf(s)].kind = "dir") =>
             /\ fs[ArchiveOf(s)].kind = "file"
             /\ Emitted(s, Ev("log", <<"compressed", ArchiveOf(s)>>))

\* C20: in the download route cleanup_files has run for a request only if
\* the file's contents have been sent to the client: not while the
\* response is still to be sent, and not for a request that sends no file,
\* such as one answered 404.
C20_CleanupAfterSend ==
    req.cleaned # "none" => req.sent
====
